---- MODULE Spec2Model ----
(***************************************************************************)
(* Model of app1.py, the energy-quotes dashboard: load_data (normalization *)
(* of the uploaded table), the sidebar filters, the filtered view and the  *)
(* derived views of one render of the script (KPI rows, chart dedupe,      *)
(* competitiveness matrix, forward curve, historical lookup, yearly        *)
(* breakdown).                                                             *)
(*                                                                         *)
(* Text cells are sequences of one-character strings, so that the string   *)
(* operations of load_data (strip, replace, title, numeric parsing) are    *)
(* computed character by character.  Prices are held in cents.  A calendar *)
(* date is an ordinal that grows with (year, month, day).                  *)
(***************************************************************************)
EXTENDS Integers, Sequences, FiniteSets, TLC

(***************************************************************************)
(* State of one render of the script                                       *)
(***************************************************************************)
VARIABLES
  raw,          \* the uploaded table
  pc,           \* where the script is
  df,           \* the result of load_data (ok = FALSE: None)
  reported,     \* st.error was shown by load_data
  changed,      \* the sidebar widgets the user changed
  sel,          \* the values the sidebar widgets returned
  df_filtered,  \* the filtered view
  header,       \* total and period of the view
  kpi,          \* the two KPI rows
  gsel,         \* the values the chart's widgets returned
  df_graph,     \* the chart's frame
  pivot_heat,   \* the competitiveness matrix
  df_line,      \* the forward curve
  base_row,     \* the row of least price of the view (empty until tab 2)
  df_hist,      \* its history
  tabela,       \* the detailed table
  breakdown,    \* the yearly breakdown
  computed,     \* the derived views computed so far in this render
  exc,          \* the statement an uncaught exception left the script at
  prev          \* product and history shown by the previous render of this table

vars == <<raw, pc, df, reported, changed, sel, df_filtered, header, kpi, gsel,
          df_graph, pivot_heat, df_line, base_row, df_hist, tabela, breakdown,
          computed, exc, prev>>

(***************************************************************************)
(* Missing values.  pandas marks a missing number or date with NaN / NaT   *)
(* and a missing string with a NaN object; NaN compares unequal to         *)
(* everything, itself included.                                            *)
(***************************************************************************)
NaN == -1000000000
NaS == "<NaN>"

IsNull(v) == v = NaN
IsNullStr(v) == v = NaS

(***************************************************************************)
(* Characters and strings                                                  *)
(***************************************************************************)
DigitChars == <<"0", "1", "2", "3", "4", "5", "6", "7", "8", "9">>
UpperChars == <<"A", "B", "C", "D", "E", "F", "G", "H", "I", "J", "K", "L", "M",
                "N", "O", "P", "Q", "R", "S", "T", "U", "V", "W", "X", "Y", "Z">>
LowerChars == <<"a", "b", "c", "d", "e", "f", "g", "h", "i", "j", "k", "l", "m",
                "n", "o", "p", "q", "r", "s", "t", "u", "v", "w", "x", "y", "z">>

Range(s) == {s[i] : i \in 1..Len(s)}

IsDigit(c) == c \in Range(DigitChars)
IsLetter(c) == c \in Range(UpperChars) \cup Range(LowerChars)
IsSpace(c) == c = " "

DigitVal(c) == (CHOOSE i \in 1..10 : DigitChars[i] = c) - 1

Upper(c) ==
  IF c \in Range(LowerChars)
    THEN UpperChars[CHOOSE i \in 1..26 : LowerChars[i] = c]
    ELSE c

Lower(c) ==
  IF c \in Range(UpperChars)
    THEN LowerChars[CHOOSE i \in 1..26 : UpperChars[i] = c]
    ELSE c

\* str.lower()
LowerStr(s) == [i \in 1..Len(s) |-> Lower(s[i])]

\* str.strip(): leading and trailing whitespace removed
Strip(s) ==
  LET keep == {i \in 1..Len(s) : ~IsSpace(s[i])}
  IN IF keep = {} THEN <<>>
     ELSE LET lo == CHOOSE i \in keep : \A j \in keep : i <= j
              hi == CHOOSE i \in keep : \A j \in keep : i >= j
          IN SubSeq(s, lo, hi)

\* str.title(): a letter that follows a non-letter is upper-cased, any other
\* letter lower-cased
Title(s) ==
  [i \in 1..Len(s) |->
     IF i = 1 \/ ~IsLetter(s[i - 1]) THEN Upper(s[i]) ELSE Lower(s[i])]

StartsWith(s, pat) == Len(s) >= Len(pat) /\ SubSeq(s, 1, Len(pat)) = pat

\* str.replace(pat, '', regex=False): every occurrence of pat removed, left to right
RECURSIVE RemoveSub(_, _)
RemoveSub(s, pat) ==
  IF s = <<>> THEN <<>>
  ELSE IF StartsWith(s, pat) THEN RemoveSub(SubSeq(s, Len(pat) + 1, Len(s)), pat)
  ELSE <<Head(s)>> \o RemoveSub(Tail(s), pat)

\* str.replace(a, b) for a single character a
ReplaceChar(s, a, b) == [i \in 1..Len(s) |-> IF s[i] = a THEN b ELSE s[i]]

\* str.contains(pat)
Contains(s, pat) ==
  \E i \in 1..(Len(s) - Len(pat) + 1) : SubSeq(s, i, i + Len(pat) - 1) = pat

AllDigits(s) == \A i \in 1..Len(s) : IsDigit(s[i])

RECURSIVE IntOfDigits(_)
IntOfDigits(s) ==
  IF s = <<>> THEN 0
  ELSE IntOfDigits(SubSeq(s, 1, Len(s) - 1)) * 10 + DigitVal(s[Len(s)])

RECURSIVE DigitsOfNat(_)
DigitsOfNat(n) ==
  IF n < 10 THEN <<DigitChars[n + 1]>>
  ELSE DigitsOfNat(n \div 10) \o <<DigitChars[(n % 10) + 1]>>

\* str(n) of an integer
StrOfInt(n) == IF n < 0 THEN <<"-">> \o DigitsOfNat(-n) ELSE DigitsOfNat(n)

\* str(x) of a non-negative price of c cents: an integer-valued cell read from a
\* spreadsheet is an int ("250"), any other a float ("250.5", "250.56")
StrOfCents(c) ==
  IF c % 100 = 0 THEN DigitsOfNat(c \div 100)
  ELSE DigitsOfNat(c \div 100) \o <<".">> \o
       (IF c % 10 = 0 THEN <<DigitChars[((c % 100) \div 10) + 1]>>
        ELSE <<DigitChars[((c % 100) \div 10) + 1], DigitChars[(c % 10) + 1]>>)

Parsed(v) == [ok |-> TRUE, v |-> v]
Raises == [ok |-> FALSE, v |-> 0]

\* The first two fractional digits of a decimal, as cents
FracCents(fp) ==
  IF Len(fp) = 0 THEN 0
  ELSE IF Len(fp) = 1 THEN DigitVal(fp[1]) * 10
  ELSE DigitVal(fp[1]) * 10 + DigitVal(fp[2])

\* pd.to_numeric of one string, in cents: surrounding whitespace is skipped, ""
\* and "nan" give NaN, [-]digits[.digits] its value, anything else raises.
\* (The texts of this model carry at most two fractional digits.)
ToNumeric(s) ==
  LET t == Strip(s)
      neg == Len(t) > 0 /\ t[1] = "-"
      u == IF neg THEN Tail(t) ELSE t
      dots == {i \in 1..Len(u) : u[i] = "."}
      p == IF dots = {} THEN Len(u) + 1 ELSE CHOOSE i \in dots : TRUE
      ip == SubSeq(u, 1, p - 1)
      fp == SubSeq(u, p + 1, Len(u))
      mag == IntOfDigits(ip) * 100 + FracCents(fp)
  IN IF s = <<>> \/ LowerStr(t) = <<"n", "a", "n">> THEN Parsed(NaN)
     ELSE IF Cardinality(dots) > 1 THEN Raises
     ELSE IF ~AllDigits(ip) \/ ~AllDigits(fp) \/ Len(ip) + Len(fp) = 0 THEN Raises
     ELSE Parsed(IF neg THEN -mag ELSE mag)

\* int(s) of a string: surrounding whitespace is skipped, [-]digits only
IntOfStr(s) ==
  LET t == Strip(s)
      neg == Len(t) > 0 /\ t[1] = "-"
      u == IF neg THEN Tail(t) ELSE t
  IN IF u = <<>> \/ ~AllDigits(u) THEN Raises
     ELSE Parsed(IF neg THEN -IntOfDigits(u) ELSE IntOfDigits(u))

(***************************************************************************)
(* Raw cells of the uploaded table                                         *)
(***************************************************************************)
Txt(s) == [k |-> "txt", s |-> s, n |-> 0]
Num(n) == [k |-> "num", s |-> <<>>, n |-> n]
Empty == [k |-> "nan", s |-> <<>>, n |-> 0]

\* A raw date cell: the three numbers of a DD/MM/YYYY text, or a token that is
\* no date
RawDate(a, b, c) == [a |-> a, b |-> b, c |-> c]
BadDate == [a |-> 0, b |-> 0, c |-> 0]

\* The dtype pandas gives a column: object when a cell holds text, float64 when
\* a numeric column has a missing cell, int64 otherwise
IsObject(cells) == \E i \in 1..Len(cells) : cells[i].k = "txt"
IsFloat(cells) == ~IsObject(cells) /\ \E i \in 1..Len(cells) : cells[i].k = "nan"

Column(rows, f) == [i \in 1..Len(rows) |-> rows[i][f]]

\* df[mask]: the rows whose mask is true, in the frame's order
Sel(rows, mask) ==
  LET F[i \in 0..Len(rows)] ==
        IF i = 0 THEN <<>>
        ELSE IF mask[i] THEN Append(F[i - 1], rows[i]) ELSE F[i - 1]
  IN F[Len(rows)]

(***************************************************************************)
(* load_data                                                               *)
(***************************************************************************)
\* astype(str) of a cell of the tipo_energia column
TipoAsStr(cell, float) ==
  IF cell.k = "txt" THEN cell.s
  ELSE IF cell.k = "nan" THEN <<"n", "a", "n">>
  ELSE IF float THEN StrOfInt(cell.n) \o <<".", "0">>
  ELSE StrOfInt(cell.n)

\* .replace({'50': 'I50', '100': 'I100', '50.0': 'I50', '100.0': 'I100'})
ReplaceTipo(s) ==
  IF s = <<"5", "0">> \/ s = <<"5", "0", ".", "0">> THEN <<"I", "5", "0">>
  ELSE IF s = <<"1", "0", "0">> \/ s = <<"1", "0", "0", ".", "0">>
    THEN <<"I", "1", "0", "0">>
  ELSE s

canonicalize_energy_type(cell, float) == ReplaceTipo(Strip(TipoAsStr(cell, float)))

\* astype(str) of a cell of an object valor_cotacao column
PriceAsStr(cell) ==
  IF cell.k = "txt" THEN cell.s
  ELSE IF cell.k = "nan" THEN <<"n", "a", "n">>
  ELSE StrOfCents(cell.n)

\* The three replacements, in the order load_data applies them
CleanPrice(s) ==
  ReplaceChar(RemoveSub(RemoveSub(s, <<"R", "$">>), <<".">>), ",", ".")

\* One cell of valor_cotacao: parsed only when the column's dtype is object
parse_price(cell, object) ==
  IF object THEN ToNumeric(CleanPrice(PriceAsStr(cell)))
  ELSE IF cell.k = "nan" THEN Parsed(NaN)
  ELSE Parsed(cell.n)

\* Days of each month (February as in a non-leap year)
DaysIn(m) == IF m = 2 THEN 28 ELSE IF m \in {4, 6, 9, 11} THEN 30 ELSE 31

DateOrdinal(y, m, d) == (y * 12 + (m - 1)) * 31 + d

\* pd.to_datetime(dayfirst=True, errors='coerce'): day, month, year; a token
\* that is no day-first date becomes NaT
parse_date(t) ==
  IF t.b \in 1..12 /\ t.a \in 1..DaysIn(t.b) /\ t.c > 0
    THEN DateOrdinal(t.c, t.b, t.a)
    ELSE NaN

\* fillna(0).astype(int) of one cell of mes_suprimento
coerce_month(cell) ==
  IF cell.k = "nan" THEN Parsed(0)
  ELSE IF cell.k = "num" THEN Parsed(cell.n)
  ELSE IntOfStr(cell.s)

\* astype(str) of a cell of the modalidade column
ModAsStr(cell) ==
  IF cell.k = "txt" THEN cell.s
  ELSE IF cell.k = "nan" THEN <<"n", "a", "n">>
  ELSE StrOfInt(cell.n)

Atacadista == <<"A", "t", "a", "c", "a", "d", "i", "s", "t", "a">>
Varejo == <<"V", "a", "r", "e", "j", "o">>

normalize_modality(hasMod, cell) ==
  IF hasMod THEN Title(Strip(ModAsStr(cell))) ELSE Atacadista

\* Whether some step of the normalization raises on this table
NormalizationRaises(file) ==
  LET rows == file.rows
      obj == IsObject(Column(rows, "valor_cotacao"))
  IN \E i \in 1..Len(rows) :
       \/ ~parse_price(rows[i].valor_cotacao, obj).ok
       \/ ~coerce_month(rows[i].mes_suprimento).ok

\* The canonical row of row i of the file (index label i - 1 of the RangeIndex)
NormalRow(file, i) ==
  LET rows == file.rows
      r == rows[i]
  IN [idx |-> i - 1,
      comercializadora |-> r.comercializadora,
      tipo_energia |->
        canonicalize_energy_type(r.tipo_energia,
                                 IsFloat(Column(rows, "tipo_energia"))),
      submercado |-> r.submercado,
      ano_suprimento |-> r.ano_suprimento,
      mes_suprimento |-> coerce_month(r.mes_suprimento).v,
      modalidade |-> normalize_modality(file.hasMod, r.modalidade),
      valor_cotacao |->
        parse_price(r.valor_cotacao,
                    IsObject(Column(rows, "valor_cotacao"))).v,
      data_cotacao |-> parse_date(r.data_cotacao)]

\* load_data, skipping the rows it cannot parse instead of failing
load_data_SkipBadRows(file) ==
  LET rows == file.rows
      obj == IsObject(Column(rows, "valor_cotacao"))
      good == [i \in 1..Len(rows) |->
                 /\ parse_price(rows[i].valor_cotacao, obj).ok
                 /\ coerce_month(rows[i].mes_suprimento).ok]
  IN [ok |-> TRUE,
      rows |-> Sel([i \in 1..Len(rows) |-> NormalRow(file, i)], good)]

\* load_data: the whole body runs inside try/except; an exception anywhere
\* reports the error and returns None
load_data(file) ==
  IF NormalizationRaises(file)
    THEN [ok |-> FALSE, rows |-> <<>>]
    ELSE [ok |-> TRUE, rows |-> [i \in 1..Len(file.rows) |-> NormalRow(file, i)]]

(***************************************************************************)
(* DataFrame helpers                                                       *)
(***************************************************************************)
\* Series.unique(), as a set (a missing value is one of the values)
Unique(rows, f) == {rows[i][f] : i \in 1..Len(rows)}

\* a == b of two cells: a missing value equals nothing
EqNum(a, b) == a = b /\ ~IsNull(a)
EqStr(a, b) == a = b /\ ~IsNullStr(a)

\* Ascending order of sort_values: missing values go last
Before(x, y) == ~IsNull(x) /\ (IsNull(y) \/ x < y)

\* One step of the insertion sort numpy runs on a short array: r goes after
\* every element that is not greater than it
InsertBy(s, r, f) ==
  LET later == {i \in 1..Len(s) : Before(r[f], s[i][f])}
      p == IF later = {} THEN Len(s) + 1
           ELSE CHOOSE i \in later : \A j \in later : i <= j
  IN SubSeq(s, 1, p - 1) \o <<r>> \o SubSeq(s, p, Len(s))

\* sort_values(f, ascending=True)
SortBy(rows, f) ==
  LET F[i \in 0..Len(rows)] ==
        IF i = 0 THEN <<>> ELSE InsertBy(F[i - 1], rows[i], f)
  IN F[Len(rows)]

\* IdxMin, returning the last row that holds the least value instead of the first
IdxMin_Last(rows, f) ==
  LET ok == {i \in 1..Len(rows) : ~IsNull(rows[i][f])}
      least == {i \in ok : \A j \in ok : rows[i][f] <= rows[j][f]}
  IN IF ok = {} THEN 0 ELSE CHOOSE i \in least : \A j \in least : i >= j

\* Series.idxmin(): the position of the first row holding the least non-missing
\* value; 0 when every value is missing (idxmin then raises, or returns NaN and
\* the .loc that follows raises)
IdxMin(rows, f) ==
  LET ok == {i \in 1..Len(rows) : ~IsNull(rows[i][f])}
      least == {i \in ok : \A j \in ok : rows[i][f] <= rows[j][f]}
  IN IF ok = {} THEN 0 ELSE CHOOSE i \in least : \A j \in least : i <= j

\* Series.idxmax()
IdxMax(rows, f) ==
  LET ok == {i \in 1..Len(rows) : ~IsNull(rows[i][f])}
      most == {i \in ok : \A j \in ok : rows[i][f] >= rows[j][f]}
  IN IF ok = {} THEN 0 ELSE CHOOSE i \in most : \A j \in most : i <= j

\* Series.min() / Series.max(): missing values are skipped, NaN when none is left
MinOf(S) == IF S \ {NaN} = {} THEN NaN
            ELSE CHOOSE x \in S \ {NaN} : \A y \in S \ {NaN} : x <= y
MaxOf(S) == IF S \ {NaN} = {} THEN NaN
            ELSE CHOOSE x \in S \ {NaN} : \A y \in S \ {NaN} : x >= y

\* sorted(...) of a set of numbers
SortedSeq(S) ==
  LET F[i \in 0..Cardinality(S)] ==
        IF i = 0 THEN <<>>
        ELSE Append(F[i - 1],
                    CHOOSE x \in S : Cardinality({y \in S : y < x}) = i - 1)
  IN F[Cardinality(S)]

RECURSIVE SumOf(_)
SumOf(s) == IF s = <<>> THEN 0 ELSE Head(s) + SumOf(Tail(s))

(***************************************************************************)
(* Sidebar widgets                                                         *)
(***************************************************************************)
min_date(rows) == MinOf(Unique(rows, "data_cotacao"))
max_date(rows) == MaxOf(Unique(rows, "data_cotacao"))

mod_disp(rows) == Unique(rows, "modalidade")
\* default_mod, defaulting to every modality
default_mod_All(rows) == mod_disp(rows)

default_mod(rows) ==
  IF Atacadista \in mod_disp(rows) THEN {Atacadista} ELSE mod_disp(rows)
anos_disp(rows) == Unique(rows, "ano_suprimento") \ {NaN}
meses_disp(rows) == Unique(rows, "mes_suprimento") \ {NaN}
subs_disp(rows) == Unique(rows, "submercado")
tipos_disp(rows) == Unique(rows, "tipo_energia")
comerc_disp(rows) == Unique(rows, "comercializadora") \ {NaS}

\* What the widgets return when the user touches nothing
DefaultSel(rows) ==
  [periodo |-> <<min_date(rows), max_date(rows)>>,
   mod |-> default_mod(rows),
   anos |-> anos_disp(rows),
   meses |-> meses_disp(rows),
   subs |-> subs_disp(rows),
   tipos |-> tipos_disp(rows),
   comerc |-> comerc_disp(rows)]

\* st.date_input in range mode returns a tuple of zero, one or two dates, each
\* within [min_value, max_value], the second not before the first (the dates
\* offered here are the quote dates of the table)
PeriodoChoices(rows) ==
  LET V == Unique(rows, "data_cotacao") \ {NaN}
  IN {<<>>} \cup {<<d>> : d \in V} \cup
     {p \in V \X V : p[2] >= p[1]}

(***************************************************************************)
(* Filter                                                                  *)
(***************************************************************************)
\* mask_data, with a single bound taken as the start of the range
mask_data_SingleBound(r, periodo) ==
  IF Len(periodo) = 2
    THEN /\ ~IsNull(r.data_cotacao)
         /\ r.data_cotacao >= periodo[1]
         /\ r.data_cotacao <= periodo[2]
    ELSE IF Len(periodo) = 1
      THEN ~IsNull(r.data_cotacao) /\ r.data_cotacao >= periodo[1]
      ELSE TRUE

\* mask_data: the date condition of one row
mask_data(r, periodo) ==
  IF Len(periodo) = 2
    THEN /\ ~IsNull(r.data_cotacao)
         /\ r.data_cotacao >= periodo[1]
         /\ r.data_cotacao <= periodo[2]
    ELSE TRUE

\* Passes, with the modality condition forgotten
Passes_NoModalidade(r, s) ==
  /\ mask_data(r, s.periodo)
  /\ r.ano_suprimento \in s.anos
  /\ r.mes_suprimento \in s.meses
  /\ r.submercado \in s.subs
  /\ r.tipo_energia \in s.tipos
  /\ r.comercializadora \in s.comerc

\* The seven conditions of df_filtered for one row
Passes(r, s) ==
  /\ mask_data(r, s.periodo)
  /\ r.ano_suprimento \in s.anos
  /\ r.mes_suprimento \in s.meses
  /\ r.submercado \in s.subs
  /\ r.tipo_energia \in s.tipos
  /\ r.comercializadora \in s.comerc
  /\ r.modalidade \in s.mod

FilterView(rows, s) == Sel(rows, [i \in 1..Len(rows) |-> Passes(rows[i], s)])

(***************************************************************************)
(* Header and KPI rows                                                     *)
(***************************************************************************)
\* Years shown in a KPI row, and the columns of the row
MaxKpiYears == 5
MaxKpiCols == 7

IsAtacado(r) == Contains(LowerStr(r.modalidade), <<"a", "t", "a", "c", "a", "d", "i">>)
IsVarejo(r) == Contains(LowerStr(r.modalidade), <<"v", "a", "r", "e", "j">>)

df_atacado(view) == Sel(view, [i \in 1..Len(view) |-> IsAtacado(view[i])])
df_varejo(view) == Sel(view, [i \in 1..Len(view) |-> IsVarejo(view[i])])

\* df_ano, with the year test forgotten
df_ano_AnyYear(sub, ano) == sub

\* df_sub[df_sub['ano_suprimento'] == ano]
df_ano(sub, ano) ==
  Sel(sub, [i \in 1..Len(sub) |-> EqNum(sub[i].ano_suprimento, ano)])

\* The years the loop of gerar_linha_kpi visits: with the average shown, the
\* loop leaves the last column free
KpiYears(anos_lista) ==
  LET limit_anos == IF Len(anos_lista) < MaxKpiYears THEN Len(anos_lista)
                    ELSE MaxKpiYears
      cols_count == IF Len(anos_lista) + 2 < MaxKpiCols THEN Len(anos_lista) + 2
                    ELSE MaxKpiCols
      n == IF limit_anos < cols_count - 2 THEN limit_anos ELSE cols_count - 2
  IN SubSeq(anos_lista, 1, n)

\* The metric of one year: the row of least price, "--" when the year has no
\* row; "raise" when idxmin finds no price at all
kpi_ano(sub, ano) ==
  LET d == df_ano(sub, ano)
      k == IdxMin(d, "valor_cotacao")
  IN IF d = <<>> THEN [ano |-> ano, kind |-> "--", idx |-> -1, preco |-> NaN,
                       comercializadora |-> NaS, row_ano |-> NaN]
     ELSE IF k = 0 THEN [ano |-> ano, kind |-> "raise", idx |-> -1, preco |-> NaN,
                         comercializadora |-> NaS, row_ano |-> NaN]
     ELSE [ano |-> ano, kind |-> "best", idx |-> d[k].idx,
           preco |-> d[k].valor_cotacao,
           comercializadora |-> d[k].comercializadora,
           row_ano |-> d[k].ano_suprimento]

\* gerar_linha_kpi(label, df_sub, anos_lista, mostrar_media=True): the metrics
\* in column order and the average of the least prices
gerar_linha_kpi(sub, anos_lista) ==
  LET ys == KpiYears(anos_lista)
      ms == [i \in 1..Len(ys) |-> kpi_ano(sub, ys[i])]
      best == Sel(ms, [i \in 1..Len(ms) |-> ms[i].kind = "best"])
  IN [shown |-> sub # <<>>,
      metrics |-> IF sub = <<>> THEN <<>> ELSE ms,
      media_sum |-> IF sub = <<>> THEN 0
                    ELSE SumOf([i \in 1..Len(best) |-> best[i].preco]),
      media_n |-> IF sub = <<>> THEN 0 ELSE Len(best)]

KpiRaises(line) == \E i \in 1..Len(line.metrics) : line.metrics[i].kind = "raise"

(***************************************************************************)
(* Chart: local filter and dedupe                                          *)
(***************************************************************************)
DefaultGSel(view) ==
  [tipos |-> Unique(view, "tipo_energia"),
   mods |-> Unique(view, "modalidade"),
   comercs |-> Unique(view, "comercializadora")]

\* df_filtered[...].copy(): the chart's own frame
ChartFilter(view, g) ==
  Sel(view, [i \in 1..Len(view) |->
               /\ view[i].tipo_energia \in g.tipos
               /\ view[i].modalidade \in g.mods
               /\ view[i].comercializadora \in g.comercs])

\* drop_duplicates(subset=['ano_suprimento', 'data_cotacao'], keep='first'):
\* missing values of a key count as equal
DropDuplicates(rows) ==
  Sel(rows, [i \in 1..Len(rows) |->
               ~\E j \in 1..(i - 1) :
                  /\ rows[j].ano_suprimento = rows[i].ano_suprimento
                  /\ rows[j].data_cotacao = rows[i].data_cotacao])

\* f"{x:.2f}" of a price in cents
Format2f(c) ==
  IF IsNull(c) THEN <<"n", "a", "n">>
  ELSE LET a == IF c < 0 THEN -c ELSE c
       IN (IF c < 0 THEN <<"-">> ELSE <<>>) \o DigitsOfNat(a \div 100) \o <<".">> \o
          <<DigitChars[((a % 100) \div 10) + 1], DigitChars[(a % 10) + 1]>>

WithTexto(r) ==
  [idx |-> r.idx, comercializadora |-> r.comercializadora,
   tipo_energia |-> r.tipo_energia, submercado |-> r.submercado,
   ano_suprimento |-> r.ano_suprimento, mes_suprimento |-> r.mes_suprimento,
   modalidade |-> r.modalidade, valor_cotacao |-> r.valor_cotacao,
   data_cotacao |-> r.data_cotacao, texto_valor |-> Format2f(r.valor_cotacao)]

\* dedupe_for_chart, without the sort by price before the duplicates are dropped
dedupe_NoPriceSort(rows) == SortBy(DropDuplicates(rows), "ano_suprimento")

\* Sort by price, drop the duplicates of (year, quote date), sort by year
dedupe_for_chart(rows) ==
  SortBy(DropDuplicates(SortBy(rows, "valor_cotacao")), "ano_suprimento")

\* df_graph after the chart's data treatment (an empty frame is left as it is)
df_graph_of(view, g) ==
  LET c == ChartFilter(view, g)
      d == dedupe_for_chart(c)
  IN IF c = <<>> THEN <<>> ELSE [i \in 1..Len(d) |-> WithTexto(d[i])]

(***************************************************************************)
(* Tabs                                                                    *)
(***************************************************************************)
\* pivot_table(index='comercializadora', columns='ano_suprimento',
\* values='valor_cotacao', aggfunc='min'): a cell exists only where a price was
\* observed
competitiveness_matrix(view) ==
  LET keys == {<<view[i].comercializadora, view[i].ano_suprimento>> :
                 i \in {j \in 1..Len(view) : ~IsNull(view[j].valor_cotacao)}}
  IN {[comercializadora |-> k[1], ano_suprimento |-> k[2],
       valor_cotacao |->
         MinOf({view[i].valor_cotacao :
                  i \in {j \in 1..Len(view) :
                           /\ view[j].comercializadora = k[1]
                           /\ view[j].ano_suprimento = k[2]}})] : k \in keys}

\* groupby(['ano_suprimento', 'tipo_energia'])['valor_cotacao'].min()
forward_curve(view) ==
  LET keys == {<<view[i].ano_suprimento, view[i].tipo_energia>> : i \in 1..Len(view)}
  IN {[ano_suprimento |-> k[1], tipo_energia |-> k[2],
       valor_cotacao |->
         MinOf({view[i].valor_cotacao :
                  i \in {j \in 1..Len(view) :
                           /\ view[j].ano_suprimento = k[1]
                           /\ view[j].tipo_energia = k[2]}})] : k \in keys}

\* The row of least price of the view (position 0: idxmin raises)
base_row_pos(view) == IdxMin(view, "valor_cotacao")

\* history_for, looked up in the filtered view instead of the full dataset
history_for_View(rows, base) ==
  SortBy(Sel(df_filtered,
             [i \in 1..Len(df_filtered) |->
                /\ EqStr(df_filtered[i].comercializadora, base.comercializadora)
                /\ df_filtered[i].tipo_energia = base.tipo_energia
                /\ EqStr(df_filtered[i].submercado, base.submercado)
                /\ EqNum(df_filtered[i].ano_suprimento, base.ano_suprimento)]),
         "data_cotacao")

\* df[(comercializadora == ..) & (tipo_energia == ..) & (submercado == ..) &
\*    (ano_suprimento == ..)].sort_values('data_cotacao')
history_for(rows, base) ==
  SortBy(Sel(rows, [i \in 1..Len(rows) |->
                      /\ EqStr(rows[i].comercializadora, base.comercializadora)
                      /\ rows[i].tipo_energia = base.tipo_energia
                      /\ EqStr(rows[i].submercado, base.submercado)
                      /\ EqNum(rows[i].ano_suprimento, base.ano_suprimento)]),
         "data_cotacao")

\* sort_values(['ano_suprimento', 'mes_suprimento', 'valor_cotacao'])
tabela_detalhada(view) ==
  SortBy(SortBy(SortBy(view, "valor_cotacao"), "mes_suprimento"), "ano_suprimento")

\* The metrics of one (year, type) group of the yearly breakdown
breakdown_of(view, ano, tipo) ==
  LET d == Sel(view, [i \in 1..Len(view) |->
                        /\ EqNum(view[i].ano_suprimento, ano)
                        /\ view[i].tipo_energia = tipo])
      priced == Sel(d, [i \in 1..Len(d) |-> ~IsNull(d[i].valor_cotacao)])
      lo == IdxMin(d, "valor_cotacao")
      hi == IdxMax(d, "valor_cotacao")
  IN [ano |-> ano, tipo |-> tipo,
      raises |-> lo = 0,
      soma |-> SumOf([i \in 1..Len(priced) |-> priced[i].valor_cotacao]),
      n |-> Len(priced),
      idx_min |-> IF lo = 0 THEN -1 ELSE d[lo].idx,
      melhor_preco |-> IF lo = 0 THEN NaN ELSE d[lo].valor_cotacao,
      melhor_comerc |-> IF lo = 0 THEN NaS ELSE d[lo].comercializadora,
      maior_preco |-> IF hi = 0 THEN NaN ELSE d[hi].valor_cotacao,
      volatilidade_ok |-> Len(priced) >= 2]

\* Tab 4: one entry per selected year that has rows and per type seen in it
yearly_breakdown(view, anos) ==
  {breakdown_of(view, k[1], k[2]) :
     k \in {<<view[i].ano_suprimento, view[i].tipo_energia>> :
              i \in {j \in 1..Len(view) : view[j].ano_suprimento \in anos}}}

(***************************************************************************)
(* Bounds and the uploaded tables                                          *)
(***************************************************************************)
\* Rows of an uploaded table
MaxRows == 3
\* Widgets whose value the user changes in one render
MaxChanged == 1

RawRow(c, t, s, y, m, mo, p, d) ==
  [comercializadora |-> c, tipo_energia |-> t, submercado |-> s,
   ano_suprimento |-> y, mes_suprimento |-> m, modalidade |-> mo,
   valor_cotacao |-> p, data_cotacao |-> d]

\* Quotes with every field present: two commercializers, two years, two types,
\* two submarkets, two months, both modalities, equal prices, rows that share
\* (year, quote date) and rows of one product quoted on different dates
QuoteRows ==
  { RawRow("CommA", Num(50), "SE", 2026, Empty, Txt(Atacadista), Num(25000),
           RawDate(10, 1, 2026)),
    RawRow("CommB", Num(50), "SE", 2026, Empty, Txt(Atacadista), Num(23000),
           RawDate(1, 3, 2026)),
    RawRow("CommA", Num(50), "SE", 2027, Empty, Txt(Atacadista), Num(26000),
           RawDate(10, 1, 2027)),
    RawRow("CommB", Num(50), "SE", 2026, Empty, Txt(Atacadista), Num(24000),
           RawDate(10, 1, 2026)),
    RawRow("CommA", Num(100), "S", 2026, Num(7), Txt(Varejo), Num(23000),
           RawDate(1, 3, 2026)) }

\* One product quoted on two dates, later date first, and a second product
\* quoted for two supply years
RerunRows ==
  { RawRow("CommB", Num(50), "SE", 2026, Empty, Txt(Atacadista), Num(23000),
           RawDate(1, 3, 2026)),
    RawRow("CommB", Num(50), "SE", 2026, Empty, Txt(Atacadista), Num(24000),
           RawDate(10, 1, 2026)),
    RawRow("CommA", Num(50), "SE", 2026, Empty, Txt(Atacadista), Num(25000),
           RawDate(10, 1, 2026)),
    RawRow("CommA", Num(50), "SE", 2027, Empty, Txt(Atacadista), Num(22000),
           RawDate(10, 1, 2027)) }

\* Quotes with missing cells: no quote date, no submarket, no commercializer,
\* no supply year, no price
MissingRows ==
  { RawRow("CommA", Num(50), "SE", 2026, Empty, Txt(Atacadista), Num(25000),
           RawDate(10, 1, 2026)),
    RawRow("CommA", Num(50), "SE", 2026, Empty, Txt(Atacadista), Num(23000),
           BadDate),
    RawRow("CommB", Num(50), NaS, 2026, Empty, Txt(Atacadista), Num(22000),
           RawDate(1, 3, 2026)),
    RawRow(NaS, Num(50), "SE", 2027, Empty, Txt(Varejo), Num(26000),
           RawDate(10, 1, 2026)),
    RawRow("CommA", Num(50), "SE", NaN, Empty, Txt(Atacadista), Num(21000),
           RawDate(1, 3, 2026)),
    RawRow("CommB", Num(50), "SE", 2027, Empty, Txt(Varejo), Empty,
           RawDate(10, 1, 2026)) }

\* Cells as a file holds them: currency text, text and numeric codes, months
\* in and out of the calendar, cells no number can be read from
FileRows ==
  { RawRow("CommA", Txt(<<" ", "5", "0", " ">>), "SE", 2026, Txt(<<"7">>),
           Txt(<<" ", "v", "a", "r", "e", "j", "o", " ">>),
           Txt(<<"R", "$", " ", "1", ".", "2", "3", "4", ",", "5", "6">>),
           RawDate(10, 1, 2026)),
    RawRow("CommB", Txt(<<"1", "0", "0", ".", "0">>), "SE", 2026, Num(13),
           Txt(<<"A", "T", "A", "C", "A", "D", "I", "S", "T", "A">>),
           Txt(<<"2", "3", "0", ",", "0", "0">>), RawDate(1, 3, 2026)),
    RawRow("CommA", Num(50), "SE", 2027, Empty, Empty,
           Txt(<<"a", "b", "c">>), RawDate(10, 1, 2027)),
    RawRow("CommA", Num(100), "SE", 2026, Txt(<<"x">>), Txt(Atacadista),
           Num(25050), RawDate(10, 1, 2026)),
    RawRow("CommB", Num(50), "SE", 2026, Num(-1), Txt(Varejo), Num(24000),
           RawDate(10, 1, 2026)) }

\* Quotes that share the least price: two commercializers tied in one year,
\* modality and type, a dearer quote of the same group, and a second group
TieRows ==
  { RawRow("CommA", Num(50), "SE", 2026, Empty, Txt(Atacadista), Num(23000),
           RawDate(10, 1, 2026)),
    RawRow("CommB", Num(50), "SE", 2026, Empty, Txt(Atacadista), Num(23000),
           RawDate(1, 3, 2026)),
    RawRow("CommB", Num(50), "SE", 2026, Empty, Txt(Atacadista), Num(25000),
           RawDate(10, 1, 2026)),
    RawRow("CommA", Num(100), "SE", 2027, Empty, Txt(Varejo), Num(24000),
           RawDate(10, 1, 2027)) }

Tables(pool, mods) ==
  [hasMod : mods, rows : UNION {[1..n -> pool] : n \in 0..MaxRows}]

(***************************************************************************)
(* Initial state                                                           *)
(***************************************************************************)
NoSel == [periodo |-> <<>>, mod |-> {}, anos |-> {}, meses |-> {}, subs |-> {},
          tipos |-> {}, comerc |-> {}]
NoGSel == [tipos |-> {}, mods |-> {}, comercs |-> {}]
NoLine == [shown |-> FALSE, metrics |-> <<>>, media_sum |-> 0, media_n |-> 0]
NoHeader == [total |-> 0, dt_ini |-> NaN, dt_fim |-> NaN]

InitWith(tables) ==
  /\ raw \in tables
  /\ pc = "load"
  /\ df = [ok |-> FALSE, rows |-> <<>>]
  /\ reported = FALSE
  /\ changed = {}
  /\ sel = NoSel
  /\ df_filtered = <<>>
  /\ header = NoHeader
  /\ kpi = [atacado |-> NoLine, varejo |-> NoLine]
  /\ gsel = NoGSel
  /\ df_graph = <<>>
  /\ pivot_heat = {}
  /\ df_line = {}
  /\ base_row = <<>>
  /\ df_hist = <<>>
  /\ tabela = <<>>
  /\ breakdown = {}
  /\ computed = {}
  /\ exc = "none"
  /\ prev = <<>>

Init == InitWith(Tables(QuoteRows, {TRUE}))
InitMissing == InitWith(Tables(MissingRows, {TRUE}))
InitFile == InitWith(Tables(FileRows, BOOLEAN))
InitRerun == InitWith(Tables(RerunRows, {TRUE}))
InitTies == InitWith(Tables(TieRows, {TRUE}))

(***************************************************************************)
(* The script, statement group by statement group                          *)
(***************************************************************************)
SidebarWidgets == {"periodo", "mod", "anos", "meses", "subs", "tipos", "comerc"}
ChartWidgets == {"tipos", "mods", "comercs"}

\* The sets of at most n widgets the user changes
ChangeSets(ws, n) == {W \in SUBSET ws : Cardinality(W) <= n}

\* The values a widget can return: its default when untouched, any other of
\* its values when changed
Pick(W, w, all, default) == IF w \in W THEN all \ {default} ELSE {default}

\* df = load_data(...); a None result skips the whole dashboard
LoadStep ==
  /\ pc = "load"
  /\ df' = load_data(raw)
  /\ reported' = ~df'.ok
  /\ pc' = IF df'.ok THEN "sidebar" ELSE "done"
  /\ UNCHANGED <<prev, raw, changed, sel, df_filtered, header, kpi, gsel,
                 df_graph, pivot_heat, df_line, base_row, df_hist, tabela,
                 breakdown, computed, exc>>

\* The sidebar widgets.  With no valid quote date in the table min_date is NaT
\* and st.date_input is handed NaT bounds: it either raises or returns no date.
Sidebar ==
  /\ pc = "sidebar"
  /\ IF IsNull(min_date(df.rows))
       THEN \E out \in {"raise", "empty"} :
              /\ sel' = IF out = "raise" THEN sel
                        ELSE [DefaultSel(df.rows) EXCEPT !.periodo = <<>>]
              /\ changed' = {}
              /\ pc' = IF out = "raise" THEN "error" ELSE "filter"
              /\ exc' = IF out = "raise" THEN "sidebar" ELSE exc
       ELSE \E W \in ChangeSets(SidebarWidgets, MaxChanged) :
            \E p \in Pick(W, "periodo", PeriodoChoices(df.rows),
                          DefaultSel(df.rows).periodo),
               mo \in Pick(W, "mod", SUBSET mod_disp(df.rows), default_mod(df.rows)),
               an \in Pick(W, "anos", SUBSET anos_disp(df.rows), anos_disp(df.rows)),
               me \in Pick(W, "meses", SUBSET meses_disp(df.rows), meses_disp(df.rows)),
               su \in Pick(W, "subs", SUBSET subs_disp(df.rows), subs_disp(df.rows)),
               ti \in Pick(W, "tipos", SUBSET tipos_disp(df.rows), tipos_disp(df.rows)),
               co \in Pick(W, "comerc", SUBSET comerc_disp(df.rows),
                           comerc_disp(df.rows)) :
              /\ sel' = [periodo |-> p, mod |-> mo, anos |-> an, meses |-> me,
                         subs |-> su, tipos |-> ti, comerc |-> co]
              /\ changed' = W
              /\ pc' = "filter"
              /\ exc' = exc
  /\ UNCHANGED <<prev, raw, df, reported, df_filtered, header, kpi, gsel,
                 df_graph, pivot_heat, df_line, base_row, df_hist, tabela,
                 breakdown, computed>>

\* ApplyFilters, with the check of an empty view forgotten
ApplyFilters_NoStop ==
  /\ pc = "filter"
  /\ df_filtered' = FilterView(df.rows, sel)
  /\ pc' = "header"
  /\ UNCHANGED <<prev, raw, df, reported, changed, sel, header, kpi, gsel,
                 df_graph, pivot_heat, df_line, base_row, df_hist, tabela,
                 breakdown, computed, exc>>

\* df_filtered = df[...]; an empty view warns and stops the script
ApplyFilters ==
  /\ pc = "filter"
  /\ df_filtered' = FilterView(df.rows, sel)
  /\ pc' = IF df_filtered' = <<>> THEN "stopped" ELSE "header"
  /\ UNCHANGED <<prev, raw, df, reported, changed, sel, header, kpi, gsel,
                 df_graph, pivot_heat, df_line, base_row, df_hist, tabela,
                 breakdown, computed, exc>>

\* Total of quotes and period: strftime of NaT raises when no row of the view
\* has a quote date
Header ==
  /\ pc = "header"
  /\ LET lo == MinOf(Unique(df_filtered, "data_cotacao"))
         hi == MaxOf(Unique(df_filtered, "data_cotacao"))
     IN IF IsNull(lo)
          THEN /\ pc' = "error"
               /\ exc' = "header"
               /\ UNCHANGED <<header, computed>>
          ELSE /\ header' = [total |-> Len(df_filtered), dt_ini |-> lo, dt_fim |-> hi]
               /\ computed' = computed \cup {"header"}
               /\ pc' = "kpi"
               /\ exc' = exc
  /\ UNCHANGED <<prev, raw, df, reported, changed, sel, df_filtered, kpi,
                 gsel, df_graph, pivot_heat, df_line, base_row, df_hist,
                 tabela, breakdown>>

\* The two KPI rows, Atacado then Varejo
KpiStep ==
  /\ pc = "kpi"
  /\ LET anos_lista == SortedSeq(sel.anos)
         a == gerar_linha_kpi(df_atacado(df_filtered), anos_lista)
         v == gerar_linha_kpi(df_varejo(df_filtered), anos_lista)
     IN IF KpiRaises(a) \/ KpiRaises(v)
          THEN /\ pc' = "error"
               /\ exc' = "kpi"
               /\ UNCHANGED <<kpi, computed>>
          ELSE /\ kpi' = [atacado |-> a, varejo |-> v]
               /\ computed' = computed \cup {"kpi"}
               /\ pc' = "chart"
               /\ exc' = exc
  /\ UNCHANGED <<prev, raw, df, reported, changed, sel, df_filtered, header,
                 gsel, df_graph, pivot_heat, df_line, base_row, df_hist,
                 tabela, breakdown>>

\* ChartStep, sorting the filtered view in place before the chart is built
ChartStep_SortInPlace ==
  /\ pc = "chart"
  /\ df_filtered' = SortBy(df_filtered, "valor_cotacao")
  /\ gsel' = DefaultGSel(df_filtered)
  /\ df_graph' = df_graph_of(df_filtered', gsel')
  /\ computed' = computed \cup {"chart"}
  /\ pc' = "tab1"
  /\ UNCHANGED <<prev, raw, df, reported, changed, sel, header, kpi, pivot_heat,
                 df_line, base_row, df_hist, tabela, breakdown, exc>>

\* The chart's own widgets, its local filter and the dedupe
ChartStep ==
  /\ pc = "chart"
  /\ \E W \in ChangeSets(ChartWidgets, MaxChanged - Cardinality(changed)) :
     \E ti \in Pick(W, "tipos", SUBSET DefaultGSel(df_filtered).tipos,
                    DefaultGSel(df_filtered).tipos),
        mo \in Pick(W, "mods", SUBSET DefaultGSel(df_filtered).mods,
                    DefaultGSel(df_filtered).mods),
        co \in Pick(W, "comercs", SUBSET DefaultGSel(df_filtered).comercs,
                    DefaultGSel(df_filtered).comercs) :
       /\ gsel' = [tipos |-> ti, mods |-> mo, comercs |-> co]
       /\ df_graph' = df_graph_of(df_filtered, gsel')
  /\ computed' = computed \cup {"chart"}
  /\ pc' = "tab1"
  /\ UNCHANGED <<prev, raw, df, reported, changed, sel, df_filtered, header,
                 kpi, pivot_heat, df_line, base_row, df_hist, tabela,
                 breakdown, exc>>

\* Tab 1: competitiveness matrix and forward curve
Tab1 ==
  /\ pc = "tab1"
  /\ pivot_heat' = competitiveness_matrix(df_filtered)
  /\ df_line' = forward_curve(df_filtered)
  /\ computed' = computed \cup {"pivot", "forward"}
  /\ pc' = "tab2"
  /\ UNCHANGED <<prev, raw, df, reported, changed, sel, df_filtered, header,
                 kpi, gsel, df_graph, base_row, df_hist, tabela, breakdown,
                 exc>>

\* Tab 2: the row of least price of the view and its history in the full table
Tab2 ==
  /\ pc = "tab2"
  /\ LET k == base_row_pos(df_filtered)
     IN IF k = 0
          THEN /\ pc' = "error"
               /\ exc' = "tab2"
               /\ UNCHANGED <<base_row, df_hist, computed>>
          ELSE /\ base_row' = <<df_filtered[k]>>
               /\ df_hist' = history_for(df.rows, df_filtered[k])
               /\ computed' = computed \cup {"hist"}
               /\ pc' = "tab3"
               /\ exc' = exc
  /\ UNCHANGED <<prev, raw, df, reported, changed, sel, df_filtered, header,
                 kpi, gsel, df_graph, pivot_heat, df_line, tabela, breakdown>>

\* Tab 3: the detailed table
Tab3 ==
  /\ pc = "tab3"
  /\ tabela' = tabela_detalhada(df_filtered)
  /\ computed' = computed \cup {"table"}
  /\ pc' = "tab4"
  /\ UNCHANGED <<prev, raw, df, reported, changed, sel, df_filtered, header,
                 kpi, gsel, df_graph, pivot_heat, df_line, base_row, df_hist,
                 breakdown, exc>>

\* Tab 4: the yearly breakdown
Tab4 ==
  /\ pc = "tab4"
  /\ LET b == yearly_breakdown(df_filtered, sel.anos)
     IN IF \E x \in b : x.raises
          THEN /\ pc' = "error"
               /\ exc' = "tab4"
               /\ UNCHANGED <<breakdown, computed>>
          ELSE /\ breakdown' = b
               /\ computed' = computed \cup {"breakdown"}
               /\ pc' = "done"
               /\ exc' = exc
  /\ UNCHANGED <<prev, raw, df, reported, changed, sel, df_filtered, header,
                 kpi, gsel, df_graph, pivot_heat, df_line, base_row, df_hist,
                 tabela>>

Next ==
  \/ LoadStep
  \/ Sidebar
  \/ ApplyFilters
  \/ Header
  \/ KpiStep
  \/ ChartStep
  \/ Tab1
  \/ Tab2
  \/ Tab3
  \/ Tab4

\* Streamlit runs the script again from the top on every interaction, with the
\* same uploaded file; prev remembers the product of tab 2 and its history
Rerun ==
  /\ pc \in {"done", "stopped", "error"}
  /\ prev' = IF "hist" \in computed
               THEN <<[comercializadora |-> base_row[1].comercializadora,
                       tipo_energia |-> base_row[1].tipo_energia,
                       submercado |-> base_row[1].submercado,
                       ano_suprimento |-> base_row[1].ano_suprimento,
                       hist |-> df_hist]>>
               ELSE prev
  /\ pc' = "load"
  /\ df' = [ok |-> FALSE, rows |-> <<>>]
  /\ reported' = FALSE
  /\ changed' = {}
  /\ sel' = NoSel
  /\ df_filtered' = <<>>
  /\ header' = NoHeader
  /\ kpi' = [atacado |-> NoLine, varejo |-> NoLine]
  /\ gsel' = NoGSel
  /\ df_graph' = <<>>
  /\ pivot_heat' = {}
  /\ df_line' = {}
  /\ base_row' = <<>>
  /\ df_hist' = <<>>
  /\ tabela' = <<>>
  /\ breakdown' = {}
  /\ computed' = {}
  /\ exc' = "none"
  /\ UNCHANGED raw

NextRerun == Next \/ Rerun

Spec == Init /\ [][Next]_vars
SpecRerun == InitRerun /\ [][NextRerun]_vars
SpecMissing == InitMissing /\ [][Next]_vars
SpecFile == InitFile /\ [][Next]_vars
SpecTies == InitTies /\ [][Next]_vars

TypeOK ==
  /\ pc \in {"load", "sidebar", "filter", "header", "kpi", "chart", "tab1", "tab2",
             "tab3", "tab4", "done", "stopped", "error"}
  /\ exc \in {"none", "sidebar", "header", "kpi", "tab2", "tab4"}
  /\ (pc = "error") = (exc # "none")
  /\ Len(df_filtered) <= Len(df.rows)

(***************************************************************************)
(* Properties                                                              *)
(***************************************************************************)
\* The filtered view of this render has been built
ViewBuilt ==
  \/ pc \in {"header", "kpi", "chart", "tab1", "tab2", "tab3", "tab4", "stopped"}
  \/ pc = "done" /\ df.ok
  \/ pc = "error" /\ exc # "sidebar"

InView(r) == \E j \in 1..Len(df_filtered) : df_filtered[j] = r

\* The six set-membership conditions, as the claims state them
InSelectedSets(r) ==
  /\ r.ano_suprimento \in sel.anos
  /\ r.mes_suprimento \in sel.meses
  /\ r.submercado \in sel.subs
  /\ r.tipo_energia \in sel.tipos
  /\ r.comercializadora \in sel.comerc
  /\ r.modalidade \in sel.mod

\* The view holds rows of the dataset only, each once, in the dataset's order
ViewInOrder ==
  /\ \A j \in 1..Len(df_filtered) :
       \E i \in 1..Len(df.rows) : df.rows[i] = df_filtered[j]
  /\ \A j, k \in 1..Len(df_filtered) :
       j < k => df_filtered[j].idx < df_filtered[k].idx

\* C1: with a two-bound date range a record is in the filtered view if and only
\* if its quote date is present and lies in [start, end] and each of its supply
\* year, supply month, submarket, energy type, commercializer and modality is in
\* the selected set; the view keeps the dataset's row order.
C1_FilterIsConjunction ==
  (ViewBuilt /\ Len(sel.periodo) = 2) =>
    /\ \A i \in 1..Len(df.rows) :
         LET r == df.rows[i]
         IN InView(r) <=>
              /\ r.data_cotacao # NaN
              /\ sel.periodo[1] <= r.data_cotacao
              /\ r.data_cotacao <= sel.periodo[2]
              /\ InSelectedSets(r)
    /\ ViewInOrder

\* A view that keeps one row and drops another whose quote date is in range
C1_Witness ==
  /\ ViewBuilt
  /\ Len(sel.periodo) = 2
  /\ df_filtered # <<>>
  /\ \E i \in 1..Len(df.rows) :
       /\ ~InView(df.rows[i])
       /\ sel.periodo[1] <= df.rows[i].data_cotacao
       /\ df.rows[i].data_cotacao <= sel.periodo[2]

\* The rows a KPI row is computed from
KpiSub(line) ==
  IF line = "atacado" THEN df_atacado(df_filtered) ELSE df_varejo(df_filtered)

\* C2: the best record shown for a queried year that has rows is a row of that
\* year whose price is the least price of the year's rows; a year without rows
\* shows the placeholder; every selected year (up to five) is queried.
C2_BestPerYear ==
  "kpi" \in computed =>
    \A line \in {"atacado", "varejo"} :
      kpi[line].shown =>
        LET sub == KpiSub(line)
            ms == kpi[line].metrics
        IN /\ Len(ms) = IF Cardinality(sel.anos) < 5 THEN Cardinality(sel.anos) ELSE 5
           /\ \A i \in 1..Len(ms) :
                LET m == ms[i]
                    S == {j \in 1..Len(sub) : sub[j].ano_suprimento = m.ano}
                IN /\ m.ano \in sel.anos
                   /\ \A k \in 1..Len(ms) : k # i => ms[k].ano # m.ano
                   /\ IF S = {} THEN m.kind = "--"
                      ELSE /\ m.kind = "best"
                           /\ m.row_ano = m.ano
                           /\ m.preco # NaN
                           /\ \E j \in S : /\ sub[j].idx = m.idx
                                           /\ sub[j].valor_cotacao = m.preco
                           /\ \A j \in S : sub[j].valor_cotacao # NaN =>
                                             m.preco <= sub[j].valor_cotacao

\* A KPI row with a placeholder for one year, while its rows are of another
\* year whose best record was chosen among different prices
C2_Witness ==
  /\ "kpi" \in computed
  /\ \E line \in {"atacado", "varejo"} :
       LET sub == KpiSub(line)
           ms == kpi[line].metrics
       IN /\ \E i \in 1..Len(ms) : ms[i].kind = "--"
          /\ \E i \in 1..Len(ms) :
               /\ ms[i].kind = "best"
               /\ \E j \in 1..Len(sub) :
                    /\ sub[j].ano_suprimento = ms[i].ano
                    /\ sub[j].valor_cotacao > ms[i].preco

\* The four fields of a product key
SameProduct(r, b) ==
  /\ r.comercializadora = b.comercializadora
  /\ r.tipo_energia = b.tipo_energia
  /\ r.submercado = b.submercado
  /\ r.ano_suprimento = b.ano_suprimento

\* C3: the history of the product of the best row holds exactly the rows of the
\* full dataset that match its four key fields, each once, in ascending order
\* of quote date; two renders of the same table that look up the same product
\* under different filters show the same history.
C3_HistoryFromFullDataset ==
  "hist" \in computed =>
    LET b == base_row[1]
    IN /\ \A j \in 1..Len(df_hist) :
            /\ \E i \in 1..Len(df.rows) : df.rows[i] = df_hist[j]
            /\ SameProduct(df_hist[j], b)
       /\ \A i \in 1..Len(df.rows) :
            SameProduct(df.rows[i], b) =>
              \E j \in 1..Len(df_hist) : df_hist[j] = df.rows[i]
       /\ \A j, k \in 1..Len(df_hist) :
            j < k => /\ df_hist[j] # df_hist[k]
                     /\ \/ df_hist[k].data_cotacao = NaN
                        \/ /\ df_hist[j].data_cotacao # NaN
                           /\ df_hist[j].data_cotacao <= df_hist[k].data_cotacao
       /\ (prev # <<>> /\ SameProduct(prev[1], b)) => prev[1].hist = df_hist

\* The same product looked up in two renders, the second under a filter that
\* drops a row of its history, the history not in the dataset's row order
C3_Witness ==
  /\ "hist" \in computed
  /\ prev # <<>>
  /\ SameProduct(prev[1], base_row[1])
  /\ \E j \in 1..Len(df_hist) : ~InView(df_hist[j])
  /\ \E j, k \in 1..Len(df_hist) : j < k /\ df_hist[j].idx > df_hist[k].idx

\* C4: once the filter has produced a view with no rows the script is stopped:
\* no derived view is computed in that render and no exception is raised.
C4_EmptyViewStops ==
  (ViewBuilt /\ df_filtered = <<>>) =>
    /\ pc = "stopped"
    /\ exc = "none"
    /\ computed = {}
    /\ header = NoHeader
    /\ kpi = [atacado |-> NoLine, varejo |-> NoLine]
    /\ df_graph = <<>>
    /\ pivot_heat = {}
    /\ df_line = {}
    /\ base_row = <<>>
    /\ df_hist = <<>>
    /\ tabela = <<>>
    /\ breakdown = {}

\* A table with rows whose filtered view is empty
C4_Witness ==
  /\ pc = "stopped"
  /\ df.rows # <<>>
  /\ df_filtered = <<>>

\* A raw row on which the price parse or the month cast raises
RowRaises(i) ==
  \/ ~parse_price(raw.rows[i].valor_cotacao,
                  IsObject(Column(raw.rows, "valor_cotacao"))).ok
  \/ ~coerce_month(raw.rows[i].mes_suprimento).ok

\* C5: when a step of the normalization raises, load_data returns None and
\* reports the error, and the render neither filters nor aggregates; a dataset
\* that is returned holds every row of the file.
C5_LoadFailsWhole ==
  /\ (pc # "load" /\ \E i \in 1..Len(raw.rows) : RowRaises(i)) =>
       /\ ~df.ok
       /\ df.rows = <<>>
       /\ reported
       /\ pc = "done"
       /\ sel = NoSel
       /\ df_filtered = <<>>
       /\ computed = {}
  /\ df.ok => Len(df.rows) = Len(raw.rows)

\* A failed load of a file that also holds a row that parses
C5_Witness ==
  /\ pc = "done"
  /\ ~df.ok
  /\ reported
  /\ \E i \in 1..Len(raw.rows) : RowRaises(i)
  /\ \E i \in 1..Len(raw.rows) : ~RowRaises(i)

\* The rows of the view the chart's own filter keeps
InChart(r) ==
  /\ r.tipo_energia \in gsel.tipos
  /\ r.modalidade \in gsel.mods
  /\ r.comercializadora \in gsel.comercs

ChartInput == {j \in 1..Len(df_filtered) : InChart(df_filtered[j])}

\* C6: after the dedupe every (supply year, quote date) pair of the input has
\* exactly one row, a row of the input whose price is the least of the pair;
\* no row is invented; the rows are in non-decreasing order of supply year.
C6_DedupeKeepsMinimum ==
  "chart" \in computed =>
    /\ \A j \in ChartInput :
         LET r == df_filtered[j]
             G == {k \in ChartInput :
                     /\ df_filtered[k].ano_suprimento = r.ano_suprimento
                     /\ df_filtered[k].data_cotacao = r.data_cotacao}
             out == {g \in 1..Len(df_graph) :
                       /\ df_graph[g].ano_suprimento = r.ano_suprimento
                       /\ df_graph[g].data_cotacao = r.data_cotacao}
         IN /\ Cardinality(out) = 1
            /\ \A g \in out :
                 /\ \E k \in G : /\ df_filtered[k].idx = df_graph[g].idx
                                 /\ df_filtered[k].valor_cotacao =
                                      df_graph[g].valor_cotacao
                 /\ \A k \in G :
                      df_filtered[k].valor_cotacao # NaN =>
                        /\ df_graph[g].valor_cotacao # NaN
                        /\ df_graph[g].valor_cotacao <= df_filtered[k].valor_cotacao
    /\ \A g \in 1..Len(df_graph) :
         \E j \in ChartInput : df_filtered[j].idx = df_graph[g].idx
    /\ \A g, h \in 1..Len(df_graph) :
         g < h => df_graph[g].ano_suprimento <= df_graph[h].ano_suprimento

\* A pair whose first row is not its cheapest, and years out of order in the input
C6_Witness ==
  /\ "chart" \in computed
  /\ \E j, k \in ChartInput :
       /\ j < k
       /\ df_filtered[j].ano_suprimento = df_filtered[k].ano_suprimento
       /\ df_filtered[j].data_cotacao = df_filtered[k].data_cotacao
       /\ df_filtered[j].valor_cotacao > df_filtered[k].valor_cotacao
  /\ \E j, k \in ChartInput :
       j < k /\ df_filtered[j].ano_suprimento > df_filtered[k].ano_suprimento

\* C7: when the date range is not a pair of bounds the filter restricts no date:
\* a record, with or without a quote date, is in the view if and only if it
\* passes the six set-membership conditions.
C7_NoDateRestriction ==
  (ViewBuilt /\ Len(sel.periodo) # 2) =>
    /\ \A i \in 1..Len(df.rows) : InView(df.rows[i]) <=> InSelectedSets(df.rows[i])
    /\ ViewInOrder

\* One bound given: the view keeps a row without quote date and a row quoted
\* before the bound, and drops a row by set membership
C7_Witness ==
  /\ ViewBuilt
  /\ Len(sel.periodo) = 1
  /\ \E j \in 1..Len(df_filtered) : df_filtered[j].data_cotacao = NaN
  /\ \E i \in 1..Len(df.rows) : ~InView(df.rows[i])

\* C8: every record of a returned dataset has a supply month in 0..12.
C8_MonthInCalendar ==
  df.ok => \A i \in 1..Len(df.rows) : df.rows[i].mes_suprimento \in 0..12

\* The user changed no sidebar widget and the date range is the full range
NoSelection == ViewBuilt /\ changed = {} /\ Len(sel.periodo) = 2

HasDate(r) == r.data_cotacao # NaN

\* C9 as claimed: with no selection every membership set is the set of all
\* observed values, and the view holds every record with a valid quote date.
C9_DefaultsAreAllObserved ==
  NoSelection =>
    /\ sel.mod = Unique(df.rows, "modalidade")
    /\ \A i \in 1..Len(df.rows) : HasDate(df.rows[i]) => InView(df.rows[i])

\* C9 as amended: with no selection the sets are the observed values of supply
\* month, submarket and energy type, the observed non-missing supply years and
\* commercializers, and for modality Atacadista alone when it is observed (every
\* observed modality otherwise); the view then holds exactly the records with a
\* quote date, a supply year, a commercializer and a modality of that set.
C9_DefaultSelection ==
  NoSelection =>
    LET atac == \E i \in 1..Len(df.rows) : df.rows[i].modalidade = Atacadista
    IN /\ sel.anos = Unique(df.rows, "ano_suprimento") \ {NaN}
       /\ sel.meses = Unique(df.rows, "mes_suprimento")
       /\ sel.subs = Unique(df.rows, "submercado")
       /\ sel.tipos = Unique(df.rows, "tipo_energia")
       /\ sel.comerc = Unique(df.rows, "comercializadora") \ {NaS}
       /\ sel.mod = IF atac THEN {Atacadista} ELSE Unique(df.rows, "modalidade")
       /\ \A i \in 1..Len(df.rows) :
            LET r == df.rows[i]
            IN InView(r) <=>
                 /\ HasDate(r)
                 /\ r.ano_suprimento # NaN
                 /\ r.comercializadora # NaS
                 /\ (atac => r.modalidade = Atacadista)

\* No selection, and a Varejo record with quote date, supply year and
\* commercializer left out of a view that holds an Atacadista record
C9_Witness ==
  /\ NoSelection
  /\ df_filtered # <<>>
  /\ \E i \in 1..Len(df.rows) :
       /\ ~InView(df.rows[i])
       /\ HasDate(df.rows[i])
       /\ df.rows[i].ano_suprimento # NaN
       /\ df.rows[i].comercializadora # NaS
       /\ df.rows[i].modalidade = Varejo

\* C10: no step after load_data changes the dataset, and no step after the
\* filter changes the filtered view; the uploaded table is never changed.
C10_FramesImmutable ==
  [][/\ raw' = raw
     /\ pc # "load" => df' = df
     /\ ViewBuilt => df_filtered' = df_filtered]_vars

\* A finished render whose chart frame dropped a duplicate and whose detailed
\* table is ordered differently from the view, the view shorter than the dataset
C10_Witness ==
  /\ pc = "done"
  /\ df_graph # <<>>
  /\ Len(df_graph) < Len(df_filtered)
  /\ Len(df_filtered) < Len(df.rows)
  /\ tabela # df_filtered
  /\ \E g \in 1..Len(df_graph) : df_graph[g].texto_valor # <<>>

\* The positions of the view whose price is the least non-missing price of set S
Cheapest(S) ==
  {j \in S : /\ df_filtered[j].valor_cotacao # NaN
              /\ \A k \in S : df_filtered[k].valor_cotacao # NaN =>
                     df_filtered[j].valor_cotacao <= df_filtered[k].valor_cotacao}

\* The label, in the dataset's row order, of the first row among positions T
FirstIdx(T) ==
  CHOOSE x \in {df_filtered[j].idx : j \in T} :
    \A j \in T : x <= df_filtered[j].idx

\* C11: among the rows that share the least price, the best record is the one
\* that comes first in the dataset's row order: in each year of a KPI row, for
\* the best row of the history tab, and for each (year, type) group of the
\* yearly breakdown.
C11_TiesFirstOccurrence ==
  /\ "kpi" \in computed =>
       \A line \in {"atacado", "varejo"} :
         \A i \in 1..Len(kpi[line].metrics) :
           LET m == kpi[line].metrics[i]
               S == {j \in 1..Len(df_filtered) :
                       /\ IF line = "atacado" THEN IsAtacado(df_filtered[j])
                          ELSE IsVarejo(df_filtered[j])
                       /\ df_filtered[j].ano_suprimento = m.ano}
           IN m.kind = "best" =>
                /\ Cheapest(S) # {}
                /\ m.idx = FirstIdx(Cheapest(S))
                /\ \E j \in Cheapest(S) :
                     /\ df_filtered[j].idx = m.idx
                     /\ df_filtered[j].comercializadora = m.comercializadora
  /\ "hist" \in computed =>
       /\ Cheapest(1..Len(df_filtered)) # {}
       /\ base_row[1].idx = FirstIdx(Cheapest(1..Len(df_filtered)))
       /\ \E j \in Cheapest(1..Len(df_filtered)) : df_filtered[j] = base_row[1]
  /\ "breakdown" \in computed =>
       \A x \in breakdown :
         LET S == {j \in 1..Len(df_filtered) :
                     /\ df_filtered[j].ano_suprimento = x.ano
                     /\ df_filtered[j].tipo_energia = x.tipo}
         IN /\ Cheapest(S) # {}
            /\ x.idx_min = FirstIdx(Cheapest(S))
            /\ \E j \in Cheapest(S) :
                 /\ df_filtered[j].idx = x.idx_min
                 /\ df_filtered[j].comercializadora = x.melhor_comerc

\* A finished render in which two commercializers share the least price of a
\* KPI year, of the whole view and of a (year, type) group, and the one shown
\* is the first of the two in the dataset
C11_Witness ==
  /\ pc = "done"
  /\ \E j, k \in Cheapest(1..Len(df_filtered)) :
       /\ df_filtered[j].idx < df_filtered[k].idx
       /\ df_filtered[j].comercializadora # df_filtered[k].comercializadora
       /\ df_filtered[j].ano_suprimento = df_filtered[k].ano_suprimento
       /\ df_filtered[j].tipo_energia = df_filtered[k].tipo_energia
       /\ base_row[1].comercializadora = df_filtered[j].comercializadora
       /\ \E i \in 1..Len(kpi.atacado.metrics) :
            /\ kpi.atacado.metrics[i].ano = df_filtered[j].ano_suprimento
            /\ kpi.atacado.metrics[i].comercializadora =
                 df_filtered[j].comercializadora
       /\ \E x \in breakdown :
            /\ x.ano = df_filtered[j].ano_suprimento
            /\ x.melhor_comerc = df_filtered[j].comercializadora

\* C12: the history looked up for the cheapest row of a non-empty view is not
\* empty and holds that row, so the least price of the history is not above
\* the best price shown; also when the row's submarket is missing.
C12_HistoryHoldsBestRow ==
  "hist" \in computed =>
    /\ df_hist # <<>>
    /\ \E j \in 1..Len(df_hist) : df_hist[j] = base_row[1]
    /\ \E j \in 1..Len(df_hist) :
         /\ df_hist[j].valor_cotacao # NaN
         /\ df_hist[j].valor_cotacao <= base_row[1].valor_cotacao

\* The cheapest row of the view has no submarket and its history is empty
C12_Witness ==
  /\ "hist" \in computed
  /\ InView(base_row[1])
  /\ base_row[1].submercado = NaS
  /\ df_hist = <<>>

====
